---- MODULE Spec2Model ----
(***************************************************************************)
(* Reddit data collector: the persistence gateway (database.py), the       *)
(* search orchestrator, API client, RateLimiter and promotional detector   *)
(* (reddit_scraper.py) and the search endpoint (app.py), modelled as       *)
(* state machines.                                                         *)
(*                                                                         *)
(*   SpecBatch    direct callers of DatabaseManager.insert_posts_batch     *)
(*   Spec         one search_posts run against the upstream API            *)
(*   SpecConc     two search_posts runs on two threads, one shared store   *)
(*   SpecLimiter  threads calling RateLimiter.wait_if_needed               *)
(*   SpecDelay    threads calling RedditAPIClient._wait_for_rate_limit     *)
(*   SpecClient   threads calling get_reddit_scraper                       *)
(*   SpecApi      api_search_posts handling one request                    *)
(*   SpecStore    a run, direct batches and reclassifications              *)
(*   SpecFault    one search_posts run whose store calls may raise         *)
(*   SpecScorer   PromotionalContentDetector.analyze_post                  *)
(*   SpecKeywords _analyze_keywords on a text that gains keywords          *)
(*   SpecDatabase threads saving posts and closing their connections       *)
(***************************************************************************)
EXTENDS Integers, Sequences, FiniteSets, TLC

VARIABLES
    \* ---- the SQLite store (database.py) ----
    db_posts,            \* table posts: sequence of rows, row id = position
    db_search_history,   \* table search_history: sequence of [status, results_count]
    inserted_count,      \* value returned by the last insert_posts_batch call
    last_batch,          \* argument of the last direct insert_posts_batch call
    rows_before,         \* table posts as it was before that call
    history_updates,     \* per search_history row: the updates applied to it
    \* ---- search_posts, one activation per thread (reddit_scraper.py) ----
    threads,             \* the threads that run search_posts
    upstream,            \* the submissions the upstream API may return
    pc,                  \* position of each thread inside search_posts
    search_params,       \* SearchParameters of the run
    search_id,           \* local search_id (0: not bound)
    part,                \* _search_multiple_subreddits: index of the subreddit
    started,             \* the current search generator has issued its call
    yielded,             \* submissions yielded by the current listing
    posts,               \* local list posts
    accepted,            \* submissions behind the entries of posts
    errors,              \* local list errors
    total_found,         \* local counter total_found
    promotional_count,   \* local counter promotional_count
    result,              \* the returned ScrapingResult (NoResult before)
    searched_parts,      \* subreddit indexes whose search was started
    failed_parts,        \* subreddit index -> error raised by its search
    \* ---- RedditAPIClient ----
    request_count,       \* RedditAPIClient.request_count
    \* ---- RateLimiter ----
    requests_per_minute, \* REDDIT_RATE_LIMIT['requests_per_minute']
    requests,            \* RateLimiter.requests
    lock,                \* RateLimiter.lock: 0 free, else the holder
    lpc,                 \* position of each caller inside wait_if_needed
    now,                 \* local now of each caller
    clock,               \* wall clock, seconds
    calls,               \* admitted calls in order: [ent, ret] times
    \* ---- RedditAPIClient._wait_for_rate_limit ----
    last_request_time,   \* RedditAPIClient.last_request_time
    dpc,                 \* position of each caller inside _wait_for_rate_limit
    current_time,        \* local current_time of each caller
    time_since_last_request, \* local time_since_last_request of each caller
    outbound,            \* times at which the paced outbound calls were made
    \* ---- get_reddit_scraper / RedditAPIClient.__init__ ----
    reddit_scraper,      \* app.reddit_scraper: 0 for None, else the builder
    cpc,                 \* position of each caller inside get_reddit_scraper
    reddit,              \* self.reddit of the client each caller constructs
    tests,               \* connection tests run by that construction, in order
    constructions,       \* RedditScraper() calls started so far
    \* ---- api_search_posts (app.py) ----
    request,             \* JSON body each thread handles (NoRequest: none)
    response,            \* HTTP status returned (0: none yet)
    \* ---- store failures met by search_posts ----
    store_errors,        \* per thread: store calls of the run that raised
    \* ---- PromotionalContentDetector ----
    submission,          \* the submission handed to analyze_post
    analysis,            \* what analyze_post returned (NoAnalysis before)
    \* ---- DatabaseManager connections (database.py) ----
    connection,          \* per thread: self._local.connection
    closes,              \* close_connections calls made so far
    closed_rows,         \* per thread: rows committed when it last closed
    db_outcome           \* outcome of the last database operation

store_vars   == <<db_posts, db_search_history, inserted_count, last_batch,
                  rows_before, history_updates>>
run_vars     == <<threads, upstream, pc, search_params, search_id, part, started,
                  yielded, posts, accepted, errors, total_found,
                  promotional_count, result, searched_parts, failed_parts,
                  request_count>>
limiter_vars == <<requests_per_minute, requests, lock, lpc, now, clock, calls>>
delay_vars   == <<last_request_time, dpc, current_time,
                  time_since_last_request, outbound>>
client_vars  == <<reddit_scraper, cpc, reddit, tests, constructions>>
api_vars     == <<request, response>>
scorer_vars  == <<submission, analysis>>
conn_vars    == <<connection, closes, closed_rows, db_outcome>>
ext_vars     == <<delay_vars, client_vars, api_vars, store_errors, scorer_vars,
                  conn_vars>>
vars         == <<store_vars, run_vars, limiter_vars, ext_vars>>

\* ---------------------------------------------------------------------------
\* Bounds
\* ---------------------------------------------------------------------------
MaxBatch   == 3      \* longest batch a direct caller passes
MaxLimit   == 2      \* largest SearchParameters.limit
MaxParts   == 3      \* longest SearchParameters.subreddits
MaxCeiling == 2      \* largest requests_per_minute
MaxCalls   == 4      \* wait_if_needed calls followed
MaxClock   == 130    \* last clock value followed
MaxListed  == 5      \* longest listing the upstream API returns
MaxHits    == 4      \* most keyword occurrences in a text
MaxUrlHits == 4      \* most suspicious-pattern matches of one kind
MaxWords   == 24     \* most words of a text that keywords are added to
MaxCloses  == 3      \* close_connections calls followed
MaxPacedSeconds  == 3   \* seconds followed while _wait_for_rate_limit is called
MaxConstructions == 3   \* RedditScraper() constructions followed

Threads    == {1, 2}
RedditIds  == {"a", "b"}
Subreddits == <<"p1", "p2", "p3", "p4", "p5">>

NoResult   == [kind |-> "none"]
NoRequest  == [kind |-> "no request"]
NoAnalysis == [kind |-> "no analysis"]
NoSubmission == [kind |-> "no submission"]

\* ---------------------------------------------------------------------------
\* Persistence gateway (database.py)
\* ---------------------------------------------------------------------------

\* database.RedditPost, the columns the pipeline fills in.
RedditPost(id, sub, score, ncomments, promo) ==
    [reddit_id |-> id, subreddit |-> sub, score |-> score,
     num_comments |-> ncomments, is_promotional |-> promo]

PostUniverse ==
    { RedditPost(id, "p1", 1, 0, pr) : id \in RedditIds, pr \in BOOLEAN }

StoredIds(table) == { table[i].reddit_id : i \in 1..Len(table) }

\* INSERT without the UNIQUE constraint on reddit_id: every row is added.
InsertNoUnique(table, post) ==
    [table |-> Append(table, post), rowcount |-> 1]

\* INSERT OR REPLACE: a conflicting row is deleted and the new row is added.
InsertOrReplace(table, post) ==
    [table |-> Append(SelectSeq(table, LAMBDA row : row.reddit_id # post.reddit_id),
                      post),
     rowcount |-> 1]

\* INSERT OR IGNORE INTO posts: reddit_id is UNIQUE NOT NULL, a conflicting row
\* is skipped and cursor.rowcount is 0.
InsertOrIgnore(table, post) ==
    IF post.reddit_id \in StoredIds(table)
    THEN [table |-> table, rowcount |-> 0]
    ELSE [table |-> Append(table, post), rowcount |-> 1]

\* insert_posts_batch: one transaction, one INSERT OR IGNORE per post,
\* inserted_count counts the statements with rowcount > 0.
RECURSIVE BatchFrom(_, _, _)
BatchFrom(table, batch, count) ==
    IF batch = <<>>
    THEN [table |-> table, inserted_count |-> count]
    ELSE LET r == InsertOrIgnore(table, Head(batch))
         IN  BatchFrom(r.table, Tail(batch),
                       IF r.rowcount > 0 THEN count + 1 ELSE count)

\* A batch written with plain INSERTs into a table without the constraint.
insert_posts_batch_append(table, batch) ==
    [table |-> table \o batch, inserted_count |-> Len(batch)]

insert_posts_batch(table, batch) == BatchFrom(table, batch, 0)

\* update_post_promotional_status: UPDATE posts SET is_promotional WHERE reddit_id.
update_post_promotional_status(table, id, promo) ==
    [i \in 1..Len(table) |->
        IF table[i].reddit_id = id
        THEN [table[i] EXCEPT !.is_promotional = promo]
        ELSE table[i]]

\* The record inserted with the default status of database.SearchHistory.
insert_search_history_default(table, status) ==
    Append(table, [status |-> "completed", results_count |-> 0])

\* insert_search_history: a new row with the record's status and results_count;
\* the row id is returned.
insert_search_history(table, status) ==
    Append(table, [status |-> status, results_count |-> 0])

\* update_search_status: UPDATE search_history SET status, results_count WHERE id.
update_search_status(table, id, status, results_count) ==
    [i \in 1..Len(table) |->
        IF i = id
        THEN [status |-> status, results_count |-> results_count]
        ELSE table[i]]

Batches == UNION { [1..n -> PostUniverse] : n \in 0..MaxBatch }

\* ---------------------------------------------------------------------------
\* Upstream submissions and SearchParameters
\* ---------------------------------------------------------------------------

\* A praw Submission as the pipeline reads it.  fault names the attribute
\* reads that raise: "filter" one read by _passes_filters, "convert" one read
\* only by _submission_to_reddit_post, "process" one that also defeats the
\* fallback of _submission_to_reddit_post.  promo is the verdict analyze_post
\* reaches on the submission.
Faults == {"none", "filter", "convert", "process"}

Submissions ==
    { [id |-> id, score |-> sc, num_comments |-> nc, over_18 |-> nsfw,
       fault |-> f, promo |-> pr] :
        id \in RedditIds, sc \in {0, 1}, nc \in {0, 1}, nsfw \in BOOLEAN,
        f \in Faults, pr \in BOOLEAN }

\* The submissions followed by Spec: post "a" with every outcome of the score
\* and comment filters and either verdict, post "b" clean, NSFW and with each
\* fault.
UpstreamFull ==
    { s \in Submissions :
        \/ /\ s.id = "a" /\ ~s.over_18 /\ s.fault = "none"
           /\ s.promo => (s.score = 1 /\ s.num_comments = 1)
        \/ /\ s.id = "b" /\ s.score = 1 /\ s.num_comments = 1 /\ ~s.promo
           /\ s.over_18 => s.fault = "none" }

\* Submissions that pass every filter and convert cleanly: the same post may
\* be seen twice, classified either way.
UpstreamClean ==
    { s \in Submissions :
        s.score = 1 /\ s.num_comments = 1 /\ ~s.over_18 /\ s.fault = "none" }

SubredditLists ==
    { <<>>, <<"all">> } \cup { SubSeq(Subreddits, 1, k) : k \in 1..MaxParts }

\* reddit_scraper.SearchParameters, the fields search_posts branches on.
ParamSpace ==
    [subreddits : SubredditLists, limit : 0..MaxLimit, include_nsfw : BOOLEAN,
     min_score : {0, 1}, min_comments : {0, 1}]

\* Two subreddits and a limit that asks each of them for two posts, so that a
\* subreddit search can fail after it yielded and before a later one starts.
ParamSpaceDeep ==
    [subreddits : {SubSeq(Subreddits, 1, 2)}, limit : {MaxLimit + 2},
     include_nsfw : {FALSE}, min_score : {0}, min_comments : {0}]

ParamSpaceConc ==
    [subreddits : {<<"all">>, <<"p1">>}, limit : {2}, include_nsfw : {FALSE},
     min_score : {0}, min_comments : {0}]

\* search_posts line 620: subreddits given and not ['all'].
Named(p) == p.subreddits # <<>> /\ p.subreddits # <<"all">>

Max2(a, b) == IF a >= b THEN a ELSE b

\* Every subreddit is asked for the whole requested limit.
posts_per_subreddit_whole(p) == Max2(1, p.limit)

\* _search_multiple_subreddits line 709.
posts_per_subreddit(p) == Max2(1, p.limit \div Len(p.subreddits))

\* The limit handed to the listing of the current search.
ListingLimit(p) == IF Named(p) THEN posts_per_subreddit(p) ELSE p.limit

\* _passes_filters: any exception while reading the submission gives False.
passes_filters(s, p) ==
    /\ s.fault # "filter"
    /\ ~(s.score < p.min_score)
    /\ ~(s.num_comments < p.min_comments)
    /\ ~(s.over_18 /\ ~p.include_nsfw)

\* _submission_to_reddit_post: the mapped post, or the minimal post of the
\* except branch (subreddit 'unknown', score 0, num_comments 0).
submission_to_reddit_post(s, sub) ==
    IF s.fault = "convert"
    THEN RedditPost(s.id, "unknown", 0, 0, FALSE)
    ELSE RedditPost(s.id, sub, s.score, s.num_comments, FALSE)

\* ---------------------------------------------------------------------------
\* Initial states
\* ---------------------------------------------------------------------------
StoreInit ==
    /\ db_posts = <<>>
    /\ db_search_history = <<>>
    /\ inserted_count = 0
    /\ last_batch = <<>>
    /\ rows_before = <<>>
    /\ history_updates = <<>>

RunInit(active, space, universe) ==
    /\ threads = active
    /\ upstream = universe
    /\ pc = [r \in Threads |-> "idle"]
    /\ search_params \in [Threads -> space]
    /\ \A r \in Threads \ active : search_params[r] = CHOOSE p \in space : TRUE
    /\ search_id = [r \in Threads |-> 0]
    /\ part = [r \in Threads |-> 1]
    /\ started = [r \in Threads |-> FALSE]
    /\ yielded = [r \in Threads |-> 0]
    /\ posts = [r \in Threads |-> <<>>]
    /\ accepted = [r \in Threads |-> <<>>]
    /\ errors = [r \in Threads |-> <<>>]
    /\ total_found = [r \in Threads |-> 0]
    /\ promotional_count = [r \in Threads |-> 0]
    /\ result = [r \in Threads |-> NoResult]
    /\ searched_parts = [r \in Threads |-> {}]
    /\ failed_parts = [r \in Threads |-> <<>>]
    /\ request_count = 0

LimiterInit(ceilings) ==
    /\ requests_per_minute \in ceilings
    /\ requests = <<>>
    /\ lock = 0
    /\ lpc = [t \in Threads |-> "out"]
    /\ now = [t \in Threads |-> 0]
    /\ clock = 0
    /\ calls = <<>>

\* RedditAPIClient.__init__ lines 100-101.
DelayInit ==
    /\ last_request_time = 0
    /\ dpc = [t \in Threads |-> "out"]
    /\ current_time = [t \in Threads |-> 0]
    /\ time_since_last_request = [t \in Threads |-> 0]
    /\ outbound = <<>>

\* app.py line 65: reddit_scraper = None.
ClientInit ==
    /\ reddit_scraper = 0
    /\ cpc = [t \in Threads |-> "out"]
    /\ reddit = [t \in Threads |-> "None"]
    /\ tests = [t \in Threads |-> <<>>]
    /\ constructions = 0

ApiInit(bodies) ==
    /\ request \in [Threads -> bodies \cup {NoRequest}]
    /\ request[2] = NoRequest
    /\ response = [t \in Threads |-> 0]

FaultInit == store_errors = [t \in Threads |-> <<>>]

ScorerInit(inputs) ==
    /\ submission \in inputs
    /\ analysis = NoAnalysis

\* DatabaseManager.__init__ (lines 100-110): the constructing thread opened
\* its connection to create the tables; the other threads have none yet.
NoOutcome == [op |-> "none", after_close |-> FALSE]
ConnInit ==
    /\ connection = [t \in Threads |-> IF t = 1 THEN "open" ELSE "absent"]
    /\ closes = 0
    /\ closed_rows = [t \in Threads |-> [closed |-> FALSE, rows |-> <<>>]]
    /\ db_outcome = NoOutcome

\* The parts of the program a specification leaves at rest.
ExtInit ==
    /\ DelayInit /\ ClientInit /\ ApiInit({}) /\ FaultInit
    /\ ScorerInit({NoSubmission}) /\ ConnInit

\* ---------------------------------------------------------------------------
\* SpecBatch: direct calls of the persistence gateway
\* ---------------------------------------------------------------------------

\* DatabaseManager.insert_posts_batch(batch), called directly.
InsertPostsBatch(batch) ==
    LET r == insert_posts_batch(db_posts, batch)
    IN  /\ db_posts' = r.table
        /\ inserted_count' = r.inserted_count
        /\ last_batch' = batch
        /\ rows_before' = db_posts
        /\ UNCHANGED <<db_search_history, history_updates, run_vars, limiter_vars, ext_vars>>

InitBatch == StoreInit /\ RunInit({}, {CHOOSE p \in ParamSpace : TRUE}, {})
                       /\ LimiterInit({1}) /\ ExtInit
NextBatch == \E batch \in Batches : InsertPostsBatch(batch)
SpecBatch == InitBatch /\ [][NextBatch]_vars

\* ---------------------------------------------------------------------------
\* search_posts (reddit_scraper.py 589-704), one step per access to shared
\* state: the store, the API client, the upstream API
\* ---------------------------------------------------------------------------

\* _wait_for_rate_limit as the searches call it: it paces on
\* last_request_time and counts the request; it does not touch rate_limiter.
wait_for_rate_limit(count) == count + 1

ScrapingResult(ps, found, promo, errs, sid) ==
    [kind |-> "result", posts |-> ps, total_found |-> found,
     total_processed |-> Len(ps), promotional_count |-> promo,
     errors |-> errs, search_id |-> sid]

\* Lines 599-629: the record is inserted with status in_progress and the
\* generator for the chosen scope is created (no code of it runs yet).
StartSearch(r) ==
    /\ r \in threads /\ pc[r] = "idle"
    /\ db_search_history' = insert_search_history(db_search_history, "in_progress")
    /\ history_updates' = Append(history_updates, <<>>)
    /\ search_id' = [search_id EXCEPT ![r] = Len(db_search_history) + 1]
    /\ pc' = [pc EXCEPT ![r] = "iterate"]
    /\ UNCHANGED <<db_posts, inserted_count, last_batch, rows_before, threads,
                   upstream, search_params, part, started, yielded, posts,
                   accepted, errors, total_found, promotional_count, result,
                   searched_parts, failed_parts, request_count, limiter_vars, ext_vars>>

PartCount(r) == IF Named(search_params[r]) THEN Len(search_params[r].subreddits) ELSE 1

\* search_subreddit / search_all_reddit up to the listing call: the generator
\* body runs on the first next(), waits in _wait_for_rate_limit and issues
\* the request.
OpenSearch(r) ==
    /\ r \in threads /\ pc[r] = "iterate" /\ ~started[r]
    /\ part[r] <= PartCount(r)
    /\ request_count' = wait_for_rate_limit(request_count)
    /\ started' = [started EXCEPT ![r] = TRUE]
    /\ yielded' = [yielded EXCEPT ![r] = 0]
    /\ searched_parts' = [searched_parts EXCEPT ![r] = @ \cup {part[r]}]
    /\ UNCHANGED <<store_vars, threads, upstream, pc, search_params, search_id,
                   part, posts, accepted, errors, total_found,
                   promotional_count, result, failed_parts, limiter_vars, ext_vars>>

\* The generator moves past the current subreddit (lines 711-723); when none
\* is left the for loop of search_posts ends and line 664 is next.
AfterPart(r) ==
    /\ part' = [part EXCEPT ![r] = @ + 1]
    /\ started' = [started EXCEPT ![r] = FALSE]
    /\ pc' = [pc EXCEPT ![r] = IF part[r] + 1 > PartCount(r) THEN "save" ELSE "iterate"]

\* The subreddit a yielded submission reports.
SubredditOf(r) ==
    IF Named(search_params[r]) THEN search_params[r].subreddits[part[r]] ELSE "p1"

\* The new post is put in front of the list.
prepend_post(ps, post) == <<post>> \o ps

\* Line 650: posts.append(reddit_post).
append_post(ps, post) == Append(ps, post)

\* Lines 632-661: the listing yields s and the loop body processes it.
ListingYields(r, s) ==
    /\ r \in threads /\ pc[r] = "iterate" /\ started[r]
    /\ yielded[r] < ListingLimit(search_params[r])
    /\ yielded[r] < MaxListed
    /\ s \in upstream
    /\ yielded' = [yielded EXCEPT ![r] = @ + 1]
    /\ total_found' = [total_found EXCEPT ![r] = @ + 1]
    /\ IF ~passes_filters(s, search_params[r])
       THEN \* line 638: continue
            UNCHANGED <<posts, accepted, errors, promotional_count, pc>>
       ELSE IF s.fault = "process"
       THEN \* lines 657-661: the error is recorded, the loop goes on
            /\ errors' = [errors EXCEPT ![r] = Append(@, <<"processing", s.id>>)]
            /\ UNCHANGED <<posts, accepted, promotional_count, pc>>
       ELSE LET post == [submission_to_reddit_post(s, SubredditOf(r))
                            EXCEPT !.is_promotional = s.promo]
            IN  /\ posts' = [posts EXCEPT ![r] = append_post(@, post)]
                /\ accepted' = [accepted EXCEPT ![r] = Append(@, s)]
                /\ promotional_count' = [promotional_count EXCEPT ![r] =
                                            IF s.promo THEN @ + 1 ELSE @]
                /\ errors' = errors
                \* line 654: break once the limit is reached
                /\ pc' = [pc EXCEPT ![r] =
                            IF Len(posts[r]) + 1 >= search_params[r].limit
                            THEN "save" ELSE "iterate"]
    /\ UNCHANGED <<store_vars, threads, upstream, search_params, search_id, part,
                   started, result, searched_parts, failed_parts, request_count,
                   limiter_vars, ext_vars>>

\* The listing is exhausted.
ListingEnds(r) ==
    /\ r \in threads /\ pc[r] = "iterate" /\ started[r]
    /\ AfterPart(r)
    /\ UNCHANGED <<store_vars, threads, upstream, search_params, search_id,
                   yielded, posts, accepted, errors, total_found,
                   promotional_count, result, searched_parts, failed_parts,
                   request_count, limiter_vars, ext_vars>>

\* What a search raises: NotFound for a subreddit that does not exist (lines
\* 232-234; Forbidden, lines 235-237, is re-raised the same way) and any other
\* error of the request (lines 238-240).
SearchErrors == {"NotFound", "Transient"}

\* A generator that lets the error of a subreddit search escape.
CatchesNothing(p) == FALSE

\* Lines 721-723: _search_multiple_subreddits catches what a subreddit search
\* raises; the generator of search_all_reddit is consumed by search_posts
\* itself, whose outer except takes the error.
CatchesSearchError(p) == Named(p)

\* The listing raises e while fetching.  A subreddit that does not exist has
\* yielded nothing.  _search_multiple_subreddits logs the error and continues
\* (lines 721-723); search_all_reddit re-raises into the outer except of
\* search_posts (line 688).
ListingFails(r, e) ==
    /\ r \in threads /\ pc[r] = "iterate" /\ started[r]
    /\ yielded[r] < ListingLimit(search_params[r])
    /\ e = "NotFound" => yielded[r] = 0
    /\ failed_parts' = [failed_parts EXCEPT ![r] = Append(@, <<part[r], e>>)]
    /\ IF CatchesSearchError(search_params[r])
       THEN AfterPart(r)
       ELSE /\ pc' = [pc EXCEPT ![r] = "critical"]
            /\ UNCHANGED <<part, started>>
    /\ UNCHANGED <<store_vars, threads, upstream, search_params, search_id,
                   yielded, posts, accepted, errors, total_found,
                   promotional_count, result, searched_parts, request_count,
                   limiter_vars, ext_vars>>

\* Lines 664-667: the accepted posts are written in one transaction.
SavePosts(r) ==
    /\ r \in threads /\ pc[r] = "save"
    /\ db_posts' = IF posts[r] # <<>>
                   THEN insert_posts_batch(db_posts, posts[r]).table
                   ELSE db_posts
    /\ pc' = [pc EXCEPT ![r] = "finalize"]
    /\ UNCHANGED <<db_search_history, inserted_count, last_batch, rows_before,
                   history_updates, threads, upstream, search_params, search_id,
                   part, started, yielded, posts, accepted, errors, total_found,
                   promotional_count, result, searched_parts, failed_parts,
                   request_count, limiter_vars, ext_vars>>

\* The update a run applies to its search_history row, and the log of it.
ApplyStatus(r, status, count) ==
    /\ db_search_history' =
          update_search_status(db_search_history, search_id[r], status, count)
    /\ history_updates' =
          [history_updates EXCEPT ![search_id[r]] =
              Append(@, [from |-> db_search_history[search_id[r]].status,
                         to |-> status, results_count |-> count])]

\* Lines 670-686: the record is completed and the result returned.
FinalizeSearch(r) ==
    /\ r \in threads /\ pc[r] = "finalize"
    /\ ApplyStatus(r, "completed", Len(posts[r]))
    /\ result' = [result EXCEPT ![r] =
                    ScrapingResult(posts[r], total_found[r], promotional_count[r],
                                   errors[r], search_id[r])]
    /\ pc' = [pc EXCEPT ![r] = "done"]
    /\ UNCHANGED <<db_posts, inserted_count, last_batch, rows_before, threads,
                   upstream, search_params, search_id, part, started, yielded,
                   posts, accepted, errors, total_found, promotional_count,
                   searched_parts, failed_parts, request_count, limiter_vars, ext_vars>>

\* Lines 688-704: the outer except records the error, fails the record and
\* returns an empty result without search_id.
CriticalError(r) ==
    /\ r \in threads /\ pc[r] = "critical"
    /\ errors' = [errors EXCEPT ![r] = Append(@, <<"critical", "search">>)]
    /\ IF search_id[r] # 0
       THEN ApplyStatus(r, "failed", 0)
       ELSE UNCHANGED <<db_search_history, history_updates>>
    /\ result' = [result EXCEPT ![r] = ScrapingResult(<<>>, 0, 0, errors'[r], 0)]
    /\ pc' = [pc EXCEPT ![r] = "done"]
    /\ UNCHANGED <<db_posts, inserted_count, last_batch, rows_before, threads,
                   upstream, search_params, search_id, part, started, yielded,
                   posts, accepted, total_found, promotional_count,
                   searched_parts, failed_parts, request_count, limiter_vars, ext_vars>>

Init ==
    /\ StoreInit
    /\ \/ RunInit({1}, ParamSpace, UpstreamFull)
       \/ RunInit({1}, ParamSpaceDeep, UpstreamClean)
    /\ LimiterInit({1})
    /\ ExtInit

Next ==
    \/ \E r \in Threads : StartSearch(r)
    \/ \E r \in Threads : OpenSearch(r)
    \/ \E r \in Threads : \E s \in Submissions : ListingYields(r, s)
    \/ \E r \in Threads : ListingEnds(r)
    \/ \E r \in Threads : \E e \in SearchErrors : ListingFails(r, e)
    \/ \E r \in Threads : SavePosts(r)
    \/ \E r \in Threads : FinalizeSearch(r)
    \/ \E r \in Threads : CriticalError(r)

Spec == Init /\ [][Next]_vars

\* SpecConc: two threads of the web application run search_posts on the one
\* shared scraper and store.
InitConc == StoreInit /\ RunInit(Threads, ParamSpaceConc, UpstreamClean)
                      /\ LimiterInit({1}) /\ ExtInit
SpecConc == InitConc /\ [][Next]_vars

\* ---------------------------------------------------------------------------
\* RateLimiter.wait_if_needed (reddit_scraper.py 321-348)
\* ---------------------------------------------------------------------------
Window    == 60          \* the literal 60 of lines 336 and 340
TickSteps == {20, 30}    \* seconds the clock advances in one step

\* Line 336: requests older than the window are dropped.
Prune(reqs, t) == SelectSeq(reqs, LAMBDA req_time : t - req_time < Window)

\* A limiter that admits one call more than the ceiling.
AtLimitOffByOne(reqs, ceiling) == Len(reqs) > ceiling

\* Line 339.
AtLimit(reqs, ceiling) == Len(reqs) >= ceiling

\* Line 340.
sleep_time(t, oldest) == Window - (t - oldest)

\* The caller takes the lock, reads the clock, prunes and checks (lines
\* 332-341).  Under the limit it appends now and returns at once (line 348);
\* at the limit it goes to sleep holding the lock (line 343).
EnterWait(t) ==
    /\ lpc[t] = "out" /\ lock = 0
    /\ Len(calls) < MaxCalls
    /\ now' = [now EXCEPT ![t] = clock]
    /\ LET kept == Prune(requests, clock)
       IN  IF AtLimit(kept, requests_per_minute)
              /\ sleep_time(clock, kept[1]) > 0
           THEN /\ requests' = kept
                /\ lock' = t
                /\ lpc' = [lpc EXCEPT ![t] = "sleeping"]
                /\ calls' = calls
           ELSE /\ requests' = Append(kept, clock)
                /\ calls' = Append(calls, [ent |-> clock, ret |-> clock])
                /\ UNCHANGED <<lock, lpc>>
    /\ UNCHANGED <<requests_per_minute, clock, store_vars, run_vars, ext_vars>>

\* time.sleep returns once sleep_time has passed; the oldest request is
\* popped, the now read before the sleep is appended and the lock released
\* (lines 343-348).
WakeUp(t) ==
    /\ lpc[t] = "sleeping" /\ lock = t
    /\ clock >= now[t] + sleep_time(now[t], requests[1])
    /\ requests' = Append(Tail(requests), now[t])
    /\ calls' = Append(calls, [ent |-> now[t], ret |-> clock])
    /\ lock' = 0
    /\ lpc' = [lpc EXCEPT ![t] = "out"]
    /\ UNCHANGED <<requests_per_minute, now, clock, store_vars, run_vars, ext_vars>>

\* Wall-clock time passes.
Tick(d) ==
    /\ clock + d <= MaxClock
    /\ clock' = clock + d
    /\ UNCHANGED <<requests_per_minute, requests, lock, lpc, now, calls,
                   store_vars, run_vars, ext_vars>>

InitLimiter == StoreInit /\ RunInit({}, {CHOOSE p \in ParamSpace : TRUE}, {})
                         /\ LimiterInit(1..MaxCeiling) /\ ExtInit
NextLimiter ==
    \/ \E t \in Threads : EnterWait(t)
    \/ \E t \in Threads : WakeUp(t)
    \/ \E d \in TickSteps : Tick(d)
SpecLimiter == InitLimiter /\ [][NextLimiter]_vars

\* ---------------------------------------------------------------------------
\* RedditAPIClient._wait_for_rate_limit (reddit_scraper.py 184-195), called
\* by the request threads of the web application on the one shared client
\* (app.py 93-103).  One step per access to the clock or to the client.
\* ---------------------------------------------------------------------------
RequestDelay == 1        \* REDDIT_RATE_LIMIT['request_delay'], seconds

\* Lines 186-192: the caller reads the clock and last_request_time and
\* decides whether to sleep.
ReadLastRequest(t) ==
    /\ dpc[t] = "out"
    /\ Len(outbound) + Cardinality({u \in Threads : dpc[u] # "out"}) < MaxCalls
    /\ current_time' = [current_time EXCEPT ![t] = clock]
    /\ time_since_last_request' =
          [time_since_last_request EXCEPT ![t] = clock - last_request_time]
    /\ dpc' = [dpc EXCEPT ![t] =
                 IF clock - last_request_time < RequestDelay
                 THEN "sleeping" ELSE "stamp"]
    /\ UNCHANGED <<last_request_time, outbound, store_vars, run_vars,
                   limiter_vars, client_vars, api_vars, store_errors,
                   scorer_vars, conn_vars>>

\* Line 192: time.sleep(request_delay - time_since_last_request) returns.
SleepOver(t) ==
    /\ dpc[t] = "sleeping"
    /\ clock >= current_time[t] + (RequestDelay - time_since_last_request[t])
    /\ dpc' = [dpc EXCEPT ![t] = "stamp"]
    /\ UNCHANGED <<last_request_time, current_time, time_since_last_request,
                   outbound, store_vars, run_vars, limiter_vars, client_vars,
                   api_vars, store_errors, scorer_vars, conn_vars>>

\* Lines 194-195 and the return: last_request_time and request_count are
\* written and the caller makes its outbound call.
StampRequest(t) ==
    /\ dpc[t] = "stamp"
    /\ last_request_time' = clock
    /\ request_count' = wait_for_rate_limit(request_count)
    /\ outbound' = Append(outbound, clock)
    /\ dpc' = [dpc EXCEPT ![t] = "out"]
    /\ UNCHANGED <<current_time, time_since_last_request, store_vars, threads,
                   upstream, pc, search_params, search_id, part, started,
                   yielded, posts, accepted, errors, total_found,
                   promotional_count, result, searched_parts, failed_parts,
                   limiter_vars, client_vars, api_vars, store_errors,
                   scorer_vars, conn_vars>>

\* One second passes.
Elapse ==
    /\ clock < RequestDelay + MaxPacedSeconds
    /\ clock' = clock + 1
    /\ UNCHANGED <<requests_per_minute, requests, lock, lpc, now, calls,
                   store_vars, run_vars, ext_vars>>

\* The client is constructed with last_request_time = 0 while time.time() is
\* far beyond request_delay: the clock starts one request_delay after 0.
InitDelay ==
    /\ StoreInit /\ RunInit({}, {CHOOSE p \in ParamSpace : TRUE}, {})
    /\ requests_per_minute = 1 /\ requests = <<>> /\ lock = 0
    /\ lpc = [t \in Threads |-> "out"] /\ now = [t \in Threads |-> 0]
    /\ clock = RequestDelay /\ calls = <<>>
    /\ ExtInit
NextDelay ==
    \/ \E t \in Threads : ReadLastRequest(t)
    \/ \E t \in Threads : SleepOver(t)
    \/ \E t \in Threads : StampRequest(t)
    \/ Elapse
SpecDelay == InitDelay /\ [][NextDelay]_vars

\* ---------------------------------------------------------------------------
\* get_reddit_scraper (app.py 93-103) and RedditAPIClient._initialize_reddit
\* (reddit_scraper.py 110-182), called by the request threads
\* ---------------------------------------------------------------------------

\* What reddit.user.me() does in _test_connection: it returns the Redditor,
\* returns None, or raises; and what reading subreddit('python').display_name
\* does in _test_readonly_connection.
ScriptOutcomes   == {"user", "none", "raise"}
ReadOnlyOutcomes == {"ok", "raise"}

\* get_reddit_scraper lines 95-103: the existing scraper is returned, or
\* RedditScraper() is called and RedditAPIClient.__init__ starts.
GetRedditScraper(t) ==
    /\ cpc[t] \in {"out", "raised"}
    /\ IF reddit_scraper # 0
       THEN /\ cpc' = [cpc EXCEPT ![t] = "has"]
            /\ UNCHANGED <<reddit, tests, constructions>>
       ELSE /\ constructions < MaxConstructions
            /\ constructions' = constructions + 1
            /\ reddit' = [reddit EXCEPT ![t] = "None"]
            /\ tests' = [tests EXCEPT ![t] = <<>>]
            /\ cpc' = [cpc EXCEPT ![t] = "script"]
    /\ UNCHANGED <<reddit_scraper, store_vars, run_vars, limiter_vars,
                   delay_vars, api_vars, store_errors, scorer_vars, conn_vars>>

\* A construction that gives up when the authenticated attempt fails.
AfterScriptModeNoFallback(outcome) ==
    IF outcome = "raise" THEN "raised" ELSE "built"

\* Lines 113-131: _test_connection returned (whatever me() returned) and
\* _initialize_reddit returns, or it raised and the except branch of line 129
\* is entered.
AfterScriptMode(outcome) ==
    IF outcome = "raise" THEN "read_only" ELSE "built"

\* Lines 132-146: the read-only test returned, or it raised and the outer
\* except of line 146 re-raises out of the constructor.
AfterReadOnlyMode(outcome) ==
    IF outcome = "raise" THEN "raised" ELSE "built"

\* Lines 115-127: the script-mode praw.Reddit is built and tested.
ScriptMode(t, outcome) ==
    /\ cpc[t] = "script"
    /\ reddit' = [reddit EXCEPT ![t] = "script"]
    /\ tests' = [tests EXCEPT ![t] = Append(@, <<"script", outcome>>)]
    /\ cpc' = [cpc EXCEPT ![t] = AfterScriptMode(outcome)]
    /\ UNCHANGED <<reddit_scraper, constructions, store_vars, run_vars,
                   limiter_vars, delay_vars, api_vars, store_errors,
                   scorer_vars, conn_vars>>

\* Lines 133-144: the read-only praw.Reddit is built and tested.
ReadOnlyMode(t, outcome) ==
    /\ cpc[t] = "read_only"
    /\ reddit' = [reddit EXCEPT ![t] = "read_only"]
    /\ tests' = [tests EXCEPT ![t] = Append(@, <<"read_only", outcome>>)]
    /\ cpc' = [cpc EXCEPT ![t] = AfterReadOnlyMode(outcome)]
    /\ UNCHANGED <<reddit_scraper, constructions, store_vars, run_vars,
                   limiter_vars, delay_vars, api_vars, store_errors,
                   scorer_vars, conn_vars>>

\* app.py line 98: the constructed scraper is bound to the global.
BindScraper(t) ==
    /\ cpc[t] = "built"
    /\ reddit_scraper' = t
    /\ cpc' = [cpc EXCEPT ![t] = "has"]
    /\ UNCHANGED <<reddit, tests, constructions, store_vars, run_vars,
                   limiter_vars, delay_vars, api_vars, store_errors,
                   scorer_vars, conn_vars>>

InitClient ==
    /\ StoreInit /\ RunInit({}, {CHOOSE p \in ParamSpace : TRUE}, {})
    /\ LimiterInit({1}) /\ ExtInit
NextClient ==
    \/ \E t \in Threads : GetRedditScraper(t)
    \/ \E t \in Threads : \E o \in ScriptOutcomes : ScriptMode(t, o)
    \/ \E t \in Threads : \E o \in ReadOnlyOutcomes : ReadOnlyMode(t, o)
    \/ \E t \in Threads : BindScraper(t)
SpecClient == InitClient /\ [][NextClient]_vars

\* ---------------------------------------------------------------------------
\* api_search_posts (app.py 277-328): the request is checked, the search
\* specification built and validated, and search_posts run on the scraper
\* (taken as constructed)
\* ---------------------------------------------------------------------------
max_limit          == 1000   \* SEARCH_CONFIG['max_limit']
max_keywords_count == 20     \* SEARCH_CONFIG.get('max_keywords_count', 20)
ApiLimitCap        == 1000   \* the literal of app.py line 301

SortValues  == {"relevance", "hot", "top", "new", "comments"}
TimeFilters == {"hour", "day", "week", "month", "year", "all"}

\* The JSON bodies followed: keywords is the length of the keyword list,
\* limit_is_int tells whether int() accepts the limit given.
RequestBodies ==
    [keywords : {0, 1, max_keywords_count + 1},
     subreddits : {<<"all">>, <<"p1">>},
     limit : {0, 1, MaxLimit, max_limit + 1},
     limit_is_int : BOOLEAN,
     time_filter : {"week", "fortnight"},
     sort : {"relevance", "best"}]

\* The one submission the upstream API returns to the searches of SpecApi.
UpstreamApi == { s \in UpstreamClean : s.id = "a" /\ ~s.promo }

Min2(a, b) == IF a <= b THEN a ELSE b

\* app.py validate_request_data(data, ['keywords']): the field is there and
\* not empty.
validate_request_data(data) == data.keywords # 0

\* app.py lines 296-305 and create_search_parameters: the requested limit is
\* cut to 1000.
create_search_parameters(data) ==
    [keywords |-> data.keywords, subreddits |-> data.subreddits,
     time_filter |-> data.time_filter, sort |-> data.sort,
     limit |-> Min2(data.limit, ApiLimitCap),
     include_nsfw |-> FALSE, min_score |-> 0, min_comments |-> 0]

\* A validator that does not look at sort.
validate_search_parameters_any_sort(p) ==
    (IF p.keywords = 0 THEN <<"Keywords are required">> ELSE <<>>)
    \o (IF p.keywords > max_keywords_count THEN <<"Too many keywords">> ELSE <<>>)
    \o (IF p.limit > max_limit THEN <<"Limit too high">> ELSE <<>>)
    \o (IF p.time_filter \notin TimeFilters THEN <<"Invalid time filter">> ELSE <<>>)

\* validate_search_parameters: the list of error messages (empty: valid).
validate_search_parameters(p) ==
    (IF p.keywords = 0 THEN <<"Keywords are required">> ELSE <<>>)
    \o (IF p.keywords > max_keywords_count THEN <<"Too many keywords">> ELSE <<>>)
    \o (IF p.limit > max_limit THEN <<"Limit too high">> ELSE <<>>)
    \o (IF p.time_filter \notin TimeFilters THEN <<"Invalid time filter">> ELSE <<>>)
    \o (IF p.sort \notin SortValues THEN <<"Invalid sort method">> ELSE <<>>)

\* Lines 281-328: 400 for a body without keywords, for a limit int() refuses
\* and for a specification the validator refuses; otherwise search_posts is
\* called with the specification.
ApiSearchPosts(r) ==
    /\ request[r] # NoRequest /\ response[r] = 0 /\ r \notin threads
    /\ IF \/ ~validate_request_data(request[r])
          \/ ~request[r].limit_is_int
          \/ validate_search_parameters(create_search_parameters(request[r])) # <<>>
       THEN /\ response' = [response EXCEPT ![r] = 400]
            /\ UNCHANGED <<threads, search_params>>
       ELSE /\ threads' = threads \cup {r}
            /\ search_params' = [search_params EXCEPT ![r] =
                                    create_search_parameters(request[r])]
            /\ UNCHANGED response
    /\ UNCHANGED <<request, store_vars, upstream, pc, search_id, part, started,
                   yielded, posts, accepted, errors, total_found,
                   promotional_count, result, searched_parts, failed_parts,
                   request_count, limiter_vars, delay_vars, client_vars,
                   store_errors, scorer_vars, conn_vars>>

\* Lines 330-360: search_posts returned and the result is sent.
ApiRespond(r) ==
    /\ r \in threads /\ pc[r] = "done" /\ response[r] = 0
    /\ request[r] # NoRequest
    /\ response' = [response EXCEPT ![r] = 200]
    /\ UNCHANGED <<request, store_vars, run_vars, limiter_vars, delay_vars,
                   client_vars, store_errors, scorer_vars, conn_vars>>

InitApi ==
    /\ StoreInit /\ RunInit({}, {CHOOSE p \in ParamSpace : TRUE}, UpstreamApi)
    /\ LimiterInit({1})
    /\ DelayInit /\ ClientInit /\ ApiInit(RequestBodies) /\ FaultInit
    /\ ScorerInit({NoSubmission}) /\ ConnInit
NextApi ==
    \/ \E r \in Threads : ApiSearchPosts(r)
    \/ \E r \in Threads : ApiRespond(r)
    \/ Next
SpecApi == InitApi /\ [][NextApi]_vars

\* ---------------------------------------------------------------------------
\* SpecStore: one search_posts run, direct insert_posts_batch calls and
\* reclassifications (database.py 421-438) on the one store
\* ---------------------------------------------------------------------------

\* DatabaseManager.update_post_promotional_status(reddit_id, is_promotional).
UpdatePostPromotionalStatus(id, promo) ==
    /\ db_posts' = update_post_promotional_status(db_posts, id, promo)
    /\ UNCHANGED <<db_search_history, inserted_count, last_batch, rows_before,
                   history_updates, run_vars, limiter_vars, ext_vars>>

\* The batches a direct caller passes while a run is under way.
SingleBatches == { batch \in Batches : Len(batch) <= 1 }

InitStore ==
    /\ StoreInit /\ RunInit({1}, ParamSpaceConc, UpstreamClean)
    /\ LimiterInit({1}) /\ ExtInit
NextStore ==
    \/ Next
    \/ \E batch \in SingleBatches : InsertPostsBatch(batch)
    \/ \E id \in RedditIds : \E promo \in BOOLEAN :
          UpdatePostPromotionalStatus(id, promo)
SpecStore == InitStore /\ [][NextStore]_vars

\* ---------------------------------------------------------------------------
\* SpecFault: one search_posts run whose store calls may raise (get_cursor,
\* database.py 151-169, rolls back and re-raises any error of the statement
\* or of the commit)
\* ---------------------------------------------------------------------------

\* The store call op of run r raised.
StoreRaises(r, op) ==
    store_errors' = [store_errors EXCEPT ![r] = Append(@, op)]

\* Line 613: insert_search_history raises, search_id is not bound and the
\* outer except of line 688 is entered.
StartSearchFails(r) ==
    /\ r \in threads /\ pc[r] = "idle"
    /\ StoreRaises(r, "insert_search_history")
    /\ pc' = [pc EXCEPT ![r] = "critical"]
    /\ UNCHANGED <<store_vars, threads, upstream, search_params, search_id,
                   part, started, yielded, posts, accepted, errors,
                   total_found, promotional_count, result, searched_parts,
                   failed_parts, request_count, limiter_vars, delay_vars,
                   client_vars, api_vars, scorer_vars, conn_vars>>

\* Line 666: the transaction of insert_posts_batch fails, nothing is stored
\* and the outer except is entered.
SavePostsFails(r) ==
    /\ r \in threads /\ pc[r] = "save" /\ posts[r] # <<>>
    /\ StoreRaises(r, "insert_posts_batch")
    /\ pc' = [pc EXCEPT ![r] = "critical"]
    /\ UNCHANGED <<store_vars, threads, upstream, search_params, search_id,
                   part, started, yielded, posts, accepted, errors,
                   total_found, promotional_count, result, searched_parts,
                   failed_parts, request_count, limiter_vars, delay_vars,
                   client_vars, api_vars, scorer_vars, conn_vars>>

\* Line 670: update_search_status(search_id, 'completed', ...) raises and the
\* outer except is entered.
FinalizeSearchFails(r) ==
    /\ r \in threads /\ pc[r] = "finalize"
    /\ StoreRaises(r, "update_search_status")
    /\ pc' = [pc EXCEPT ![r] = "critical"]
    /\ UNCHANGED <<store_vars, threads, upstream, search_params, search_id,
                   part, started, yielded, posts, accepted, errors,
                   total_found, promotional_count, result, searched_parts,
                   failed_parts, request_count, limiter_vars, delay_vars,
                   client_vars, api_vars, scorer_vars, conn_vars>>

\* Lines 688-694: inside the outer except the error is appended and
\* update_search_status(search_id, 'failed', 0) raises; no handler encloses
\* it, so the exception leaves search_posts and no ScrapingResult is returned.
CriticalErrorFails(r) ==
    /\ r \in threads /\ pc[r] = "critical" /\ search_id[r] # 0
    /\ errors' = [errors EXCEPT ![r] = Append(@, <<"critical", "search">>)]
    /\ StoreRaises(r, "update_search_status")
    /\ pc' = [pc EXCEPT ![r] = "raised"]
    /\ UNCHANGED <<store_vars, threads, upstream, search_params, search_id,
                   part, started, yielded, posts, accepted, total_found,
                   promotional_count, result, searched_parts, failed_parts,
                   request_count, limiter_vars, delay_vars, client_vars,
                   api_vars, scorer_vars, conn_vars>>

InitFault ==
    /\ StoreInit /\ RunInit({1}, ParamSpaceConc, UpstreamClean)
    /\ LimiterInit({1}) /\ ExtInit
NextFault ==
    \/ Next
    \/ \E r \in Threads : StartSearchFails(r)
    \/ \E r \in Threads : SavePostsFails(r)
    \/ \E r \in Threads : FinalizeSearchFails(r)
    \/ \E r \in Threads : CriticalErrorFails(r)
SpecFault == InitFault /\ [][NextFault]_vars

\* ---------------------------------------------------------------------------
\* PromotionalContentDetector (reddit_scraper.py 354-558).  Scores are kept
\* in thousandths.
\* ---------------------------------------------------------------------------
One == 1000                      \* the literal 1.0 of the min(..., 1.0) caps
confidence_threshold == 700      \* PROMOTIONAL_DETECTION['confidence_threshold']

\* Weights under which the keyword score alone reaches the threshold.
weight_factors_keyword_heavy ==
    [keyword_density |-> 700, url_analysis |-> 100, author_behavior |-> 100,
     content_structure |-> 100]

\* PROMOTIONAL_DETECTION['weight_factors'].
weight_factors ==
    [keyword_density |-> 400, url_analysis |-> 300, author_behavior |-> 200,
     content_structure |-> 100]

\* Title and body of a submission as the analyses read them: the number of
\* words, the occurrences of promotional keywords, the capitalization,
\* whether it has more than three exclamation marks, a call-to-action phrase,
\* an asterisk.  upper is "no" for a text that is not all upper case or has
\* at most 20 characters, "letters" for a longer all-capitals text whose
\* letters have lower-case forms, "symbols" for one whose cased characters
\* all lack a lower-case form (as the letterlike symbols do); such a text
\* holds no keyword and no call-to-action phrase, which are made of letters.
Capitalizations == {"no", "letters", "symbols"}
Texts ==
    { t \in [words : {0, 1, 10, 40}, keyword_hits : 0..MaxHits,
             upper : Capitalizations, exclamations : BOOLEAN, cta : BOOLEAN,
             formatting : BOOLEAN] :
        /\ t.words = 0 => /\ t.keyword_hits = 0 /\ t.upper = "no"
                          /\ ~t.exclamations /\ ~t.cta /\ ~t.formatting
        /\ t.upper = "symbols" => t.keyword_hits = 0 /\ ~t.cta }

\* submission.author: None for a deleted user, else an account that is
\* younger than 30 days or not and has less than 100 karma or not.
Authors ==
    { a \in [deleted : BOOLEAN, new_account : BOOLEAN, low_karma : BOOLEAN] :
        a.deleted => ~a.new_account /\ ~a.low_karma }

\* The attribute read that raises: none, title or selftext (line 387), url or
\* permalink (line 467), author.created_utc (line 504), the karma of the
\* author (line 511).
ScorerFaults == {"none", "text", "url", "author", "karma"}

\* url_hits: patterns that match submission.url; text_url_hits: matches of a
\* pattern on a URL found in selftext.
ScorerInputs ==
    { s \in [fault : ScorerFaults, text : Texts, url_hits : 0..MaxUrlHits,
             text_url_hits : 0..MaxUrlHits, author : Authors] :
        s.text.words = 0 => s.text_url_hits = 0 }

\* str.lower(): every letter that has a lower-case form is lower case
\* afterwards, a character without one stays as it is; words, exclamation
\* marks and asterisks stay, keywords and phrases are matched in lower case.
lower(text) ==
    [text EXCEPT !.upper = IF @ = "symbols" THEN "symbols" ELSE "no"]

\* A keyword score normalised by 2 instead of 10.
analyze_keywords_factor_two(text) ==
    Min2((2 * One * text.keyword_hits) \div Max2(text.words, 1), One)

\* A keyword score that is not capped.
analyze_keywords_uncapped(text) ==
    (10 * One * text.keyword_hits) \div Max2(text.words, 1)

\* _analyze_keywords: min(keyword_count / max(word_count, 1) * 10, 1.0).
analyze_keywords(text) ==
    Min2((10 * One * text.keyword_hits) \div Max2(text.words, 1), One)

\* _analyze_urls: 0.3 per match on submission.url, 0.2 per match in selftext.
analyze_urls(s) == Min2(300 * s.url_hits + 200 * s.text_url_hits, One)

\* _analyze_author_behavior: the inner except keeps the score reached when a
\* read of the author raises.
analyze_author_behavior(s) ==
    LET age == IF s.author.new_account THEN 300 ELSE 0
        karma == IF s.author.low_karma THEN 200 ELSE 0
    IN  IF s.author.deleted THEN [score |-> 0, error |-> FALSE]
        ELSE IF s.fault = "author" THEN [score |-> Min2(0, One), error |-> TRUE]
        ELSE IF s.fault = "karma" THEN [score |-> Min2(age, One), error |-> TRUE]
        ELSE [score |-> Min2(age + karma, One), error |-> FALSE]

\* _analyze_content_structure.
analyze_content_structure(text) ==
    Min2((IF text.upper # "no" THEN 200 ELSE 0) + (IF text.exclamations THEN 100 ELSE 0)
         + (IF text.cta THEN 300 ELSE 0) + (IF text.formatting THEN 100 ELSE 0),
         One)

\* Lines 385-423: the body of the try.
ScoredAnalysis(s) ==
    LET text == lower(s.text)
        k == analyze_keywords(text)
        u == analyze_urls(s)
        a == analyze_author_behavior(s)
        c == analyze_content_structure(text)
        confidence == (k * weight_factors.keyword_density
                       + u * weight_factors.url_analysis
                       + a.score * weight_factors.author_behavior
                       + c * weight_factors.content_structure) \div One
    IN  [kind |-> "analysis",
         is_promotional |-> confidence >= confidence_threshold,
         confidence_score |-> confidence,
         analysis_details |->
            [keyword_analysis |-> k, url_analysis |-> u, author_analysis |-> a,
             content_structure_analysis |-> c, final_confidence |-> confidence]]

\* Lines 425-434: the safe default.
SafeDefault ==
    [kind |-> "analysis", is_promotional |-> FALSE, confidence_score |-> 0,
     analysis_details |-> [error |-> TRUE]]

\* An exception reaches the handler of analyze_post: the reads of lines 387
\* and 467-473 are not inside any inner try.
RaisesInTry(s) == s.fault \in {"text", "url"}

\* analyze_post without its try: the exception leaves it.
analyze_post_unguarded(s) ==
    IF RaisesInTry(s) THEN [kind |-> "raised"] ELSE ScoredAnalysis(s)

\* analyze_post.
analyze_post(s) == IF RaisesInTry(s) THEN SafeDefault ELSE ScoredAnalysis(s)

\* search_posts line 645: the detector analyzes the submission.
AnalyzePost ==
    /\ submission # NoSubmission /\ analysis = NoAnalysis
    /\ analysis' = analyze_post(submission)
    /\ UNCHANGED <<submission, store_vars, run_vars, limiter_vars, delay_vars,
                   client_vars, api_vars, store_errors, conn_vars>>

InitScorer ==
    /\ StoreInit /\ RunInit({}, {CHOOSE p \in ParamSpace : TRUE}, {})
    /\ LimiterInit({1})
    /\ DelayInit /\ ClientInit /\ ApiInit({}) /\ FaultInit
    /\ ScorerInit(ScorerInputs) /\ ConnInit
NextScorer == AnalyzePost
SpecScorer == InitScorer /\ [][NextScorer]_vars

\* ---------------------------------------------------------------------------
\* _analyze_keywords on a text that gains keyword occurrences
\* (reddit_scraper.py 437-459).
\* ---------------------------------------------------------------------------
\* PROMOTIONAL_DETECTION['promotional_keywords'] by shape: the words of the
\* phrase, the occurrences text.count adds for it over the whole list
\* ('advertisement' and 'download now' also contain 'ad'), and whether it is
\* one of the call-to-action phrases of line 544.
promotional_keywords ==
    { [words |-> 1, hits |-> 1, cta |-> FALSE],      \* 'discount', 'ad', ...
      [words |-> 1, hits |-> 2, cta |-> FALSE],      \* 'advertisement'
      [words |-> 2, hits |-> 1, cta |-> FALSE],      \* 'special offer', ...
      [words |-> 2, hits |-> 1, cta |-> TRUE],       \* 'buy now', 'click here'
      [words |-> 2, hits |-> 2, cta |-> FALSE],      \* 'download now'
      [words |-> 3, hits |-> 1, cta |-> FALSE] }     \* 'check out our'

\* The texts keywords are added to: any number of words and of occurrences
\* (one word can hold several), no other signal.
KeywordInputs ==
    { s \in [fault : {"none"},
             text : [words : 0..MaxWords, keyword_hits : 0..MaxHits,
                     upper : {"no"}, exclamations : {FALSE}, cta : BOOLEAN,
                     formatting : {FALSE}],
             url_hits : {0}, text_url_hits : {0},
             author : {[deleted |-> TRUE, new_account |-> FALSE,
                        low_karma |-> FALSE]}] :
        /\ s.text.words = 0 => s.text.keyword_hits = 0
        /\ s.text.cta => s.text.keyword_hits > 0 }

\* Lines 442-459 on the text as it is now: the result of _analyze_keywords.
AnalyzeKeywords ==
    /\ submission # NoSubmission
    /\ analysis' = [kind |-> "keywords",
                    score |-> analyze_keywords(lower(submission.text)),
                    keyword_count |-> submission.text.keyword_hits,
                    word_count |-> submission.text.words]
    /\ analysis' # analysis
    /\ UNCHANGED <<submission, store_vars, run_vars, limiter_vars, delay_vars,
                   client_vars, api_vars, store_errors, conn_vars>>

\* One more occurrence of keyword kw is written into the post, the rest of
\* the text staying as it is: text.count (line 445) finds kw.hits more
\* occurrences, and text.split() (line 448) finds new more words, none when
\* the keyword is joined to words already there, up to the words of kw.
AddKeywordOccurrence(kw, new) ==
    /\ submission # NoSubmission
    /\ submission.text.words <= MaxWords
    /\ submission.text.keyword_hits <= MaxHits
    /\ new \in 0..kw.words
    /\ submission.text.words = 0 => new > 0
    /\ submission' = [submission EXCEPT
                         !.text.keyword_hits = @ + kw.hits,
                         !.text.words = @ + new,
                         !.text.cta = @ \/ kw.cta]
    /\ UNCHANGED <<analysis, store_vars, run_vars, limiter_vars, delay_vars,
                   client_vars, api_vars, store_errors, conn_vars>>

InitKeywords ==
    /\ StoreInit /\ RunInit({}, {CHOOSE p \in ParamSpace : TRUE}, {})
    /\ LimiterInit({1})
    /\ DelayInit /\ ClientInit /\ ApiInit({}) /\ FaultInit
    /\ ScorerInit(KeywordInputs) /\ ConnInit
NextKeywords ==
    \/ AnalyzeKeywords
    \/ \E kw \in promotional_keywords : \E new \in 0..3 :
          AddKeywordOccurrence(kw, new)
SpecKeywords == InitKeywords /\ [][NextKeywords]_vars

\* ---------------------------------------------------------------------------
\* DatabaseManager: thread-local connections, save_post, get_database_stats,
\* close_connections (database.py 114-169, 260-287, 532-590, 809-831).  The
\* database is the file of DATABASE_CONFIG['database_path'], which every
\* caller of the repository uses; db_posts holds its committed rows.
\* ---------------------------------------------------------------------------
None == "<None>"

\* The posts handed to save_post: reddit_id and title are a string, the empty
\* string or None; others says whether the remaining fields are set or None.
InvalidPost == [reddit_id |-> "", title |-> "", others |-> "null"]
SavedPosts ==
    { InvalidPost,
      [reddit_id |-> "", title |-> "t", others |-> "set"],
      [reddit_id |-> "a", title |-> "t", others |-> "set"],
      [reddit_id |-> None, title |-> "t", others |-> "set"],
      [reddit_id |-> "a", title |-> None, others |-> "set"] }

\* insert_post: a plain INSERT under the constraints of the posts table,
\* reddit_id TEXT UNIQUE NOT NULL and title TEXT NOT NULL.  An empty string
\* is not NULL; the other columns accept NULL.  A violated constraint raises
\* sqlite3.IntegrityError and get_cursor rolls back.
insert_post(table, post) ==
    IF \/ post.reddit_id = None \/ post.title = None
       \/ post.reddit_id \in StoredIds(table)
    THEN [table |-> table, error |-> "IntegrityError", lastrowid |-> 0]
    ELSE [table |-> Append(table, post), error |-> "none",
          lastrowid |-> Len(table) + 1]

\* save_post (line 829) returns insert_post(post).
save_post(table, post) == insert_post(table, post)

\* _get_connection: a thread without the attribute connects; a thread that
\* has one gets it back, whatever its state.
get_connection(c) == IF c = "absent" THEN "open" ELSE c

\* A close that leaves the closed connection in the thread-local storage.
close_connections_keep_attribute(c) == IF c = "absent" THEN c ELSE "closed"

\* close_connections: the connection of the calling thread is closed and the
\* attribute deleted.
close_connections(c) == IF c = "absent" THEN c ELSE "absent"

\* What an operation of thread t leaves behind: the operation, its error,
\* the committed rows before and after it, the state of the connection it
\* used, and whether it is the first operation since the thread closed.
Outcome(t, op, post, conn, error, after) ==
    [op |-> op, thread |-> t, post |-> post, connection |-> conn,
     error |-> error, rows_before |-> db_posts, visible |-> after,
     total_posts |-> Len(after), after_close |-> closed_rows[t].closed,
     rows_at_close |-> closed_rows[t].rows]

\* get_cursor around one statement: the connection is fetched or opened; a
\* closed connection raises sqlite3.ProgrammingError when the cursor is made.
SavePost(t, post) ==
    /\ LET conn == get_connection(connection[t])
           r == IF conn = "closed"
                THEN [table |-> db_posts, error |-> "ProgrammingError"]
                ELSE save_post(db_posts, post)
       IN  /\ connection' = [connection EXCEPT ![t] = conn]
           /\ db_posts' = r.table
           /\ db_outcome' = Outcome(t, "save_post", post, conn, r.error, r.table)
    /\ closed_rows' = [closed_rows EXCEPT ![t] = [closed |-> FALSE, rows |-> <<>>]]
    /\ UNCHANGED <<closes, db_search_history, inserted_count, last_batch,
                   rows_before, history_updates, run_vars, limiter_vars,
                   delay_vars, client_vars, api_vars, store_errors, scorer_vars>>

\* get_database_stats: SELECT COUNT(*) FROM posts on the thread's connection.
GetDatabaseStats(t) ==
    /\ LET conn == get_connection(connection[t])
           error == IF conn = "closed" THEN "ProgrammingError" ELSE "none"
       IN  /\ connection' = [connection EXCEPT ![t] = conn]
           /\ db_outcome' = Outcome(t, "get_database_stats", InvalidPost, conn,
                                    error, db_posts)
           /\ db_outcome' # db_outcome
    /\ closed_rows' = [closed_rows EXCEPT ![t] = [closed |-> FALSE, rows |-> <<>>]]
    /\ UNCHANGED <<closes, store_vars, run_vars, limiter_vars, delay_vars,
                   client_vars, api_vars, store_errors, scorer_vars>>

\* close_connections called by thread t.
CloseConnections(t) ==
    /\ closes < MaxCloses
    /\ closes' = closes + 1
    /\ connection' = [connection EXCEPT ![t] = close_connections(@)]
    /\ closed_rows' = [closed_rows EXCEPT ![t] = [closed |-> TRUE, rows |-> db_posts]]
    /\ UNCHANGED <<db_outcome, store_vars, run_vars, limiter_vars, delay_vars,
                   client_vars, api_vars, store_errors, scorer_vars>>

InitDatabase ==
    /\ StoreInit /\ RunInit({}, {CHOOSE p \in ParamSpace : TRUE}, {})
    /\ LimiterInit({1}) /\ ExtInit
NextDatabase ==
    \/ \E t \in Threads : \E post \in SavedPosts : SavePost(t, post)
    \/ \E t \in Threads : GetDatabaseStats(t)
    \/ \E t \in Threads : CloseConnections(t)
SpecDatabase == InitDatabase /\ [][NextDatabase]_vars

\* ---------------------------------------------------------------------------
\* Properties
\* ---------------------------------------------------------------------------
RowsOf(table, id) == { i \in 1..Len(table) : table[i].reddit_id = id }
StatusOf(r) == db_search_history[search_id[r]].status
Finished(r) == pc[r] = "done"

\* C1: whatever sequence of insert_posts_batch calls is made, the posts table
\* holds at most one row per reddit_id; a post whose reddit_id is already
\* stored, or that occurs a second time in the batch, adds no row and is not
\* counted: the returned count is the number of new reddit_ids, and the table
\* grew by exactly that many rows behind the rows it had.
C1_OneRowPerRedditId ==
    /\ \A id \in RedditIds : Cardinality(RowsOf(db_posts, id)) <= 1
    /\ inserted_count = Cardinality(StoredIds(last_batch) \ StoredIds(rows_before))
    /\ Len(db_posts) = Len(rows_before) + inserted_count
    /\ SubSeq(db_posts, 1, Len(rows_before)) = rows_before

\* A batch that repeats a reddit_id and also carries one already stored.
C1_Witness ==
    /\ \E i, j \in 1..Len(last_batch) :
          i < j /\ last_batch[i].reddit_id = last_batch[j].reddit_id
                /\ last_batch[i].reddit_id \notin StoredIds(rows_before)
    /\ \E i \in 1..Len(last_batch) : last_batch[i].reddit_id \in StoredIds(rows_before)
    /\ inserted_count = 1

\* C2: when two concurrent search_posts runs both accepted a post with the
\* same reddit_id and neither met a search error, the store ends with exactly
\* one row for that id and both runs report success: each returns its posts
\* with an empty error list and its search-history record is completed.
C2_ConcurrentRunsOneRow ==
    \A id \in RedditIds :
        (\A r \in Threads : /\ Finished(r)
                            /\ failed_parts[r] = <<>>
                            /\ id \in StoredIds(posts[r]))
        => /\ Cardinality(RowsOf(db_posts, id)) = 1
           /\ \A r \in Threads : /\ result[r].posts = posts[r]
                                 /\ result[r].errors = <<>>
                                 /\ StatusOf(r) = "completed"

\* Both runs finished with post "a", which they classified differently.
C2_Witness ==
    /\ \A r \in Threads : Finished(r) /\ failed_parts[r] = <<>>
    /\ \E i \in 1..Len(posts[1]) : \E j \in 1..Len(posts[2]) :
          /\ posts[1][i].reddit_id = "a" /\ posts[2][j].reddit_id = "a"
          /\ posts[1][i].is_promotional # posts[2][j].is_promotional

\* C3: every post accepted by search_posts has score >= min_score,
\* num_comments >= min_comments, and is NSFW only if include_nsfw is set.
C3_AcceptedPassFilters ==
    \A r \in Threads : \A i \in 1..Len(posts[r]) :
        /\ posts[r][i].score >= search_params[r].min_score
        /\ posts[r][i].num_comments >= search_params[r].min_comments
        /\ accepted[r][i].over_18 => search_params[r].include_nsfw

ZeroDueToErrors(r) ==
    /\ posts[r] = <<>> \/ ~Named(search_params[r])
    /\ failed_parts[r] # <<>>
    /\ \A j \in 1..PartCount(r) :
          \E k \in 1..Len(failed_parts[r]) : failed_parts[r][k][1] = j

\* C5: a run that collected zero posts due to errors returns total_processed
\* = 0 with a non-empty errors list and a failed record; a legitimately empty
\* run is completed with an empty errors list.
C5_ZeroDueToErrorsIsFailed ==
    \A r \in Threads : Finished(r) =>
        /\ ZeroDueToErrors(r) =>
              /\ result[r].total_processed = 0
              /\ result[r].errors # <<>>
              /\ StatusOf(r) = "failed"
        /\ (failed_parts[r] = <<>> /\ accepted[r] = <<>> /\ errors[r] = <<>>) =>
              /\ result[r].errors = <<>>
              /\ StatusOf(r) = "completed"

\* C6: when one of several named subreddits does not exist, the finished run
\* carries an errors entry for that subreddit's NotFound and total_processed
\* counts only posts of the other subreddits.
C6_NotFoundRecorded ==
    \A r \in Threads :
        (Finished(r) /\ Named(search_params[r])) =>
            \A k \in 1..Len(failed_parts[r]) :
                failed_parts[r][k][2] = "NotFound" =>
                    LET name == search_params[r].subreddits[failed_parts[r][k][1]]
                    IN  /\ \E i \in 1..Len(result[r].errors) :
                              result[r].errors[i] = <<"NotFound", name>>
                        /\ \A i \in 1..Len(result[r].posts) :
                              result[r].posts[i].subreddit # name

LoopOver(r) == pc[r] \in {"save", "finalize", "done"}

\* C7 as stated: after the search of one named subreddit raised, every
\* subreddit listed after it is still searched and the accepted posts are
\* kept.
C7_LaterPartsAlwaysSearched ==
    \A r \in Threads :
        (Named(search_params[r]) /\ LoopOver(r)) =>
            \A k \in 1..Len(failed_parts[r]) :
                \A j \in (failed_parts[r][k][1] + 1)..PartCount(r) :
                    j \in searched_parts[r]

\* C7, amended: after the search of one named subreddit raised (at its start
\* or after it yielded), the run is not aborted: every subreddit listed after
\* it is still searched unless the requested limit of accepted posts was
\* reached first, and the posts accepted before and after the failure are
\* all returned by a completed run.
C7_ErrorDoesNotAbort ==
    \A r \in Threads :
        (Named(search_params[r]) /\ failed_parts[r] # <<>>) =>
            /\ pc[r] # "critical"
            /\ Len(posts[r]) = Len(accepted[r])
            /\ LoopOver(r) =>
                  \A k \in 1..Len(failed_parts[r]) :
                      \A j \in (failed_parts[r][k][1] + 1)..PartCount(r) :
                          \/ j \in searched_parts[r]
                          \/ Len(posts[r]) >= search_params[r].limit
            /\ Finished(r) =>
                  /\ result[r].posts = posts[r]
                  /\ StatusOf(r) = "completed"

\* The first subreddit failed after it yielded an accepted post, and the run
\* returned that post together with one of a later subreddit.
C7_Witness ==
    \E r \in Threads :
        /\ Finished(r) /\ Named(search_params[r])
        /\ Len(failed_parts[r]) = 1 /\ failed_parts[r][1][1] = 1
        /\ Len(result[r].posts) = 2
        /\ result[r].posts[1].subreddit = "p1"
        /\ result[r].posts[2].subreddit = "p2"

\* C8: every network round-trip of search_subreddit and search_all_reddit is
\* preceded by a RateLimiter.wait_if_needed call that records it; no
\* outbound call is made that the limiter has not recorded.
C8_EveryRequestRecorded == request_count <= Len(calls)

\* C9: the calls admitted within any 60-second interval never exceed
\* requests_per_minute (of any requests_per_minute + 1 admitted calls the
\* last returns at least a window after the first), and prune, check and
\* append are one critical section.
C9_CeilingPerWindow ==
    /\ \A i \in 1..Len(calls) :
          (i + requests_per_minute <= Len(calls)) =>
              calls[i + requests_per_minute].ret - calls[i].ret >= Window
    /\ \A t \in Threads : lpc[t] = "sleeping" => lock = t

\* C10: of N + 1 calls issued back-to-back under ceiling N, the last returns
\* at least 60 seconds after the first was made.
C10_NPlusOneTakeAWindow ==
    \A i \in 1..Len(calls) :
        (i + requests_per_minute <= Len(calls)) =>
            calls[i + requests_per_minute].ret >= calls[i].ent + Window

\* Ceiling 2: three calls made at time 0, the third returned after its sleep.
C10_Witness ==
    /\ requests_per_minute = 2
    /\ Len(calls) >= 3
    /\ calls[1].ent = 0 /\ calls[2].ent = 0 /\ calls[3].ent = 0
    /\ calls[3].ret >= Window

\* C11: any two successive outbound calls made through the one
\* RedditAPIClient are at least request_delay apart, also when concurrent
\* threads call _wait_for_rate_limit on the shared client.
C11_CallsRequestDelayApart ==
    \A i \in 1..(Len(outbound) - 1) :
        outbound[i + 1] - outbound[i] >= RequestDelay

\* The constructions of the scraper now bound to the global, if any.
BuilderLog == IF reddit_scraper = 0 THEN <<>> ELSE tests[reddit_scraper]

NoWork(r) ==
    /\ r \notin threads /\ pc[r] = "idle" /\ search_id[r] = 0
    /\ request_count = 0 /\ db_search_history = <<>> /\ db_posts = <<>>

C14_AtMostLimit ==
    \A r \in threads :
        /\ Len(posts[r]) <= search_params[r].limit
        /\ result[r] # NoResult => Len(result[r].posts) <= search_params[r].limit

\* The per-subreddit limits of the searches a run has issued, summed.
IssuedLimits(r) ==
    Cardinality(searched_parts[r]) * posts_per_subreddit(search_params[r])

\* C15 as stated: for limit >= 1 over k named subreddits each subreddit is
\* searched with a limit of at least 1, and the limits issued sum to at most
\* the requested limit.
C15_LimitsSumWithinLimit ==
    \A r \in threads :
        (Named(search_params[r]) /\ search_params[r].limit >= 1) =>
            /\ posts_per_subreddit(search_params[r]) >= 1
            /\ yielded[r] <= posts_per_subreddit(search_params[r])
            /\ IssuedLimits(r) <= search_params[r].limit

\* C15, amended: for limit >= 1 over k named subreddits each subreddit is
\* searched with the limit max(1, floor(limit / k)), at least 1, and never
\* yields more; when limit >= k the limits of all k subreddits sum to at most
\* the requested limit, and when limit < k each subreddit is still asked for
\* one post.
C15_FloorAtLeastOne ==
    \A r \in threads :
        LET p == search_params[r]
            k == Len(p.subreddits)
            n == posts_per_subreddit(p)
        IN  (Named(p) /\ p.limit >= 1) =>
                /\ n >= 1
                /\ yielded[r] <= n
                /\ p.limit >= k =>
                      /\ n * k <= p.limit /\ p.limit < (n + 1) * k
                      /\ IssuedLimits(r) <= p.limit
                /\ p.limit < k => n = 1

\* Every one of at least two subreddits was searched under a limit that
\* covers them, and the current listing gave all it was asked for.
C15_Witness ==
    \E r \in threads :
        LET p == search_params[r]
        IN  /\ Named(p) /\ Len(p.subreddits) >= 2
            /\ p.limit >= Len(p.subreddits)
            /\ searched_parts[r] = 1..Len(p.subreddits)
            /\ yielded[r] = posts_per_subreddit(p)

\* The place of a named subreddit in the caller's list.
PartIndex(p, name) == CHOOSE j \in 1..Len(p.subreddits) : p.subreddits[j] = name

\* C16: the posts of a run are in candidate order: they are the accepted
\* candidates in the order they were yielded, every post of an earlier-listed
\* subreddit comes before any post of a later-listed one, and a completed
\* run returns them in that order.
C16_CandidateOrder ==
    \A r \in threads :
        /\ Len(posts[r]) = Len(accepted[r])
        /\ \A i \in 1..Len(posts[r]) :
              /\ posts[r][i].reddit_id = accepted[r][i].id
              /\ posts[r][i].is_promotional = accepted[r][i].promo
        /\ Named(search_params[r]) =>
              \A i, j \in 1..Len(posts[r]) :
                  (/\ i < j
                   /\ posts[r][i].subreddit # "unknown"
                   /\ posts[r][j].subreddit # "unknown") =>
                      PartIndex(search_params[r], posts[r][i].subreddit)
                          <= PartIndex(search_params[r], posts[r][j].subreddit)
        /\ (Finished(r) /\ StatusOf(r) = "completed") => result[r].posts = posts[r]

\* A completed run over two subreddits returned post "b" of the first
\* before post "a" of the second.
C16_Witness ==
    \E r \in threads :
        /\ Finished(r) /\ failed_parts[r] = <<>>
        /\ Len(result[r].posts) = 2
        /\ result[r].posts[1].reddit_id = "b" /\ result[r].posts[1].subreddit = "p1"
        /\ result[r].posts[2].reddit_id = "a" /\ result[r].posts[2].subreddit = "p2"

\* C17: once a post is stored, no step of a search_posts run and no
\* insert_posts_batch call changes a field of its row or removes it, also
\* when the later write classifies the post differently; is_promotional of a
\* stored row changes only in a step that is an
\* update_post_promotional_status call.
C17_FirstWriteWins ==
    [][/\ Len(db_posts') >= Len(db_posts)
       /\ \A i \in 1..Len(db_posts) :
             /\ [db_posts'[i] EXCEPT !.is_promotional = db_posts[i].is_promotional]
                   = db_posts[i]
             /\ db_posts'[i].is_promotional # db_posts[i].is_promotional =>
                   /\ UNCHANGED <<run_vars, last_batch, rows_before>>
                   /\ \E id \in RedditIds : \E promo \in BOOLEAN :
                         db_posts' = update_post_promotional_status(db_posts, id, promo)
      ]_vars

\* A direct batch stored a post first; a run that accepted the same post with
\* another classification has saved, and the row is still the one of the
\* batch.
C17_Witness ==
    \E r \in threads : \E i \in 1..Len(posts[r]) : \E j \in 1..Len(db_posts) :
        /\ pc[r] \in {"finalize", "done"}
        /\ Len(last_batch) = 1 /\ inserted_count = 1
        /\ db_posts[j] = last_batch[1]
        /\ posts[r][i].reddit_id = db_posts[j].reddit_id
        /\ posts[r][i].is_promotional # db_posts[j].is_promotional

\* C18: search_posts never raises to its caller: whenever a call of the API
\* client or of the store failed during the run (creating or finalizing the
\* search-history record included), the run ends by returning a
\* ScrapingResult whose errors list is not empty.
C18_NeverRaises ==
    \A r \in threads :
        /\ pc[r] # "raised"
        /\ (Finished(r) /\ (store_errors[r] # <<>> \/ failed_parts[r] # <<>>)) =>
              /\ result[r] # NoResult
              /\ result[r].errors # <<>>

HasErrorMarker(details) == "error" \in DOMAIN details /\ details.error

\* The post of the scenario as analyze_post reads it: the title "BUY NOW!!!
\* Limited time deal, click here" and a body of three links make ten words
\* with four keyword occurrences (buy now, click here, limited time, deal),
\* three exclamation marks (not more than three), a call-to-action phrase, no
\* asterisk; three suspicious-pattern matches, on the link of the post or on
\* links of the body; an author whose account is two days old.
BuyNowPost(s) ==
    /\ s.fault = "none"
    /\ s.text = [words |-> 10, keyword_hits |-> 4, upper |-> "no",
                 exclamations |-> FALSE, cta |-> TRUE, formatting |-> FALSE]
    /\ s.url_hits + s.text_url_hits = 3
    /\ ~s.author.deleted /\ s.author.new_account

\* C21: the post titled "BUY NOW!!! Limited time deal, click here" with
\* three suspicious URLs and an author account two days old is classified by
\* analyze_post as promotional with confidence >= 0.7 under the default
\* weights and threshold.
C21_BuyNowIsPromotional ==
    (analysis # NoAnalysis /\ BuyNowPost(submission)) =>
        /\ analysis.is_promotional
        /\ analysis.confidence_score >= confidence_threshold

InUnit(x) == 0 <= x /\ x <= One

\* C20: for every analyzed post the keyword, URL, author and structure
\* sub-scores and the weighted confidence lie in [0, 1], whatever the number
\* of keyword occurrences and of suspicious-URL matches.
C20_ScoresInUnitInterval ==
    analysis # NoAnalysis =>
        /\ InUnit(analysis.confidence_score)
        /\ ~HasErrorMarker(analysis.analysis_details) =>
              LET d == analysis.analysis_details
              IN  /\ InUnit(d.keyword_analysis)
                  /\ InUnit(d.url_analysis)
                  /\ InUnit(d.author_analysis.score)
                  /\ InUnit(d.content_structure_analysis)
                  /\ InUnit(d.final_confidence)
                  /\ d.final_confidence = analysis.confidence_score

\* A one-word text with the most keyword occurrences and the most URL
\* matches of both kinds: both uncapped sums exceed 1 and both scores are 1.
C20_Witness ==
    /\ analysis # NoAnalysis /\ submission.fault = "none"
    /\ submission.text.words = 1 /\ submission.text.keyword_hits = MaxHits
    /\ submission.url_hits = MaxUrlHits /\ submission.text_url_hits = MaxUrlHits
    /\ analysis.analysis_details.keyword_analysis = One
    /\ analysis.analysis_details.url_analysis = One

\* C26: a post whose title and body are all capital letters and longer than
\* 20 characters receives the +0.2 capitalization contribution in the
\* content-structure sub-score computed by analyze_post.
C26_CapitalsContribute ==
    (analysis # NoAnalysis /\ ~RaisesInTry(submission)
     /\ submission.text.upper # "no") =>
        analysis.analysis_details.content_structure_analysis >= 200

\* C30: under the default weights and threshold a post is classified
\* promotional only if its keyword score and its URL score are both above 0;
\* a post without any suspicious-URL match is never promotional, whatever
\* its text, author and structure.
C30_NeedsKeywordsAndUrls ==
    analysis # NoAnalysis =>
        /\ analysis.is_promotional =>
              /\ analysis.analysis_details.keyword_analysis > 0
              /\ analysis.analysis_details.url_analysis > 0
        /\ (submission.url_hits = 0 /\ submission.text_url_hits = 0) =>
              ~analysis.is_promotional

\* A post of a deleted author without any structure signal is promotional on
\* its keywords and URLs alone: both scores are at the cap and the confidence
\* is exactly the threshold.
C30_Witness ==
    /\ analysis # NoAnalysis /\ analysis.is_promotional
    /\ submission.author.deleted
    /\ analysis.analysis_details.keyword_analysis = One
    /\ analysis.analysis_details.url_analysis = One
    /\ analysis.analysis_details.content_structure_analysis = 0
    /\ analysis.confidence_score = confidence_threshold

\* C22: adding further occurrences of promotional keywords to a post whose
\* other content is unchanged never decreases the keyword-density score of
\* _analyze_keywords: the score of the text as it is now is at least the
\* score computed before the occurrences were added, for every starting text
\* and every keyword of the configured list.
C22_KeywordScoreMonotone ==
    (analysis # NoAnalysis /\ analysis.kind = "keywords") =>
        analyze_keywords(lower(submission.text)) >= analysis.score

\* A text scored below the cap gained a three-word keyword with a single
\* occurrence, the addition that lowers the density most, and its score now
\* is above the score it had.
C22_Witness ==
    /\ analysis # NoAnalysis /\ analysis.kind = "keywords"
    /\ 0 < analysis.score /\ analysis.score < One
    /\ submission.text.keyword_hits = analysis.keyword_count + 1
    /\ submission.text.words = analysis.word_count + 3
    /\ analysis.score < analyze_keywords(lower(submission.text))
    /\ analyze_keywords(lower(submission.text)) < One

\* C23: save_post rejects the post whose reddit_id and title are empty
\* strings and whose other fields are null: the call raises an error and no
\* row is stored.
C23_EmptyPostRejected ==
    (db_outcome.op = "save_post" /\ db_outcome.post = InvalidPost) =>
        /\ db_outcome.error # "none"
        /\ db_posts = db_outcome.rows_before

IsPrefix(a, b) == Len(a) <= Len(b) /\ SubSeq(b, 1, Len(a)) = a

\* C27: the first database operation a thread issues after close_connections
\* opens a new connection and succeeds, and sees the rows committed before
\* the close, after any number of close/operate cycles: it never fails on a
\* closed connection, a statistics query never fails at all and counts every
\* committed row.
C27_ReconnectsAfterClose ==
    db_outcome.after_close =>
        /\ db_outcome.connection = "open"
        /\ db_outcome.error # "ProgrammingError"
        /\ IsPrefix(db_outcome.rows_at_close, db_outcome.visible)
        /\ db_outcome.op = "get_database_stats" =>
              /\ db_outcome.error = "none"
              /\ db_outcome.total_posts = Len(db_posts)

\* The last of MaxCloses closes was made by a thread with committed rows,
\* and the statistics it asked for next counted them.
C27_Witness ==
    /\ closes = MaxCloses
    /\ db_outcome.after_close /\ db_outcome.op = "get_database_stats"
    /\ db_outcome.rows_at_close # <<>>
    /\ db_outcome.total_posts = Len(db_outcome.rows_at_close)

\* C29: whenever search_posts created a search-history record, the returned
\* result's search_id equals that record's id, on the completed path and on
\* the failed path alike.
C29_ResultCarriesSearchId ==
    \A r \in Threads :
        (Finished(r) /\ search_id[r] # 0) =>
            result[r].search_id = search_id[r]

\* C25: an exception raised while one candidate is filtered, mapped or
\* scored is caught and recorded in the run's errors list and the candidate
\* is not accepted: no accepted candidate is one whose processing raised,
\* and the run holds an error entry for every candidate that raised past the
\* filters.
C25_FailingCandidateRecorded ==
    \A r \in Threads :
        /\ \A i \in 1..Len(accepted[r]) : accepted[r][i].fault = "none"
        /\ \A i \in 1..Len(posts[r]) :
              posts[r][i].subreddit = "unknown" =>
                  \E k \in 1..Len(errors[r]) :
                      errors[r][k] = <<"processing", posts[r][i].reddit_id>>

\* The run of r is over: a result was returned or an exception left
\* search_posts.
RunOver(r) == pc[r] \in {"done", "raised"}

\* The outer except was entered while nothing of the run had been written.
CriticalBeforePersistence(r) ==
    /\ \E k \in 1..Len(errors[r]) : errors[r][k] = <<"critical", "search">>
    /\ \A i \in 1..Len(posts[r]) : posts[r][i].reddit_id \notin StoredIds(db_posts)

\* C24: at the end of a run its search-history record carries the outcome:
\* a completed record has results_count equal to the number of posts
\* returned (total_processed); after a top-level exception before
\* persistence the record is failed with results_count 0, the result carries
\* no posts and no post of the run was written to the store.
C24_RecordCarriesOutcome ==
    \A r \in Threads :
        (RunOver(r) /\ search_id[r] # 0) =>
            LET row == db_search_history[search_id[r]]
            IN  /\ row.status = "completed" =>
                      /\ result[r] # NoResult
                      /\ row.results_count = result[r].total_processed
                      /\ row.results_count = Len(result[r].posts)
                /\ CriticalBeforePersistence(r) =>
                      /\ row.status = "failed" /\ row.results_count = 0
                      /\ result[r] # NoResult
                      /\ result[r].posts = <<>>

\* The partitions of a named run are opened in list order, one at a time:
\* those opened so far are exactly the ones up to the current one, and one
\* rate-limit wait and request was made for each.
OpenedInOrder(r) ==
    searched_parts[r] = 1..(IF started[r] THEN part[r] ELSE part[r] - 1)

\* No partition is opened by a step that starts with the limit reached.
NoSearchOnceLimitReached ==
    \A r \in Threads :
        (Named(search_params[r]) /\ Len(posts[r]) >= search_params[r].limit) =>
            /\ searched_parts'[r] = searched_parts[r]
            /\ request_count' = request_count

\* C28: named partitions are searched lazily and strictly one at a time in
\* list order: a partition is not started (no rate-limit wait, no network
\* call) until the previous one is exhausted or failed, and once the
\* requested limit of accepted posts is reached no further partition is
\* contacted.
C28_LazyPartitions ==
    /\ [](\A r \in Threads : Named(search_params[r]) => OpenedInOrder(r))
    /\ [][NoSearchOnceLimitReached]_vars

====
